---- MODULE Spec2Model ----
(***************************************************************************)
(* A model of astro-ui: the city search box of a sidebar slot              *)
(* (ui/Sidebar.tsx, lib/geo.ts), the trajectory samplers (lib/astro.ts),   *)
(* the geometry builders and the sky projection (three/buildObjects.ts),   *)
(* the application root (App) and the moon phase icon (three/Scene3D.tsx). *)
(*                                                                         *)
(* The parts do not share state.  Each has its own initial                 *)
(* predicate, next-state relation and specification; a part that is not    *)
(* running rests in an idle state in which none of its actions is enabled. *)
(*                                                                         *)
(* Conventions.  Angles are integer degrees.  Lengths, sizes and           *)
(* trigonometric values are fixed-point numbers in thousandths (Milli).    *)
(* Illumination fractions are tenths (0..IllumScale).  Instants are        *)
(* minutes.  Array indices keep the 0-based values of the source; the      *)
(* element with source index i of a sequence s is s[i + 1].                *)
(***************************************************************************)
EXTENDS Integers, Sequences, FiniteSets

VARIABLES
    \* ---- city slot search box (Sidebar.tsx, CitySlot) ----
    mounted,      \* the CitySlot component is mounted
    q,            \* useState q: the text of the search box
    list,         \* useState list: the result list shown under the box
    effects,      \* the effect instances whose searchCity promise is pending
    issued,       \* number of effect runs so far = id of the newest query
    applied,      \* history: what the last setList(r) was called for, and whether
                  \* a resolved list was dropped because its effect was not alive
    \* ---- geometry builders (buildObjects.ts) ----
    bpc,          \* position of the build: idle, lines, points, done
    kind,         \* userData.kind: the body the trajectory belongs to
    traj,         \* points: the TrajPoint[] handed to the builders
    show,         \* showBelowHorizon
    size,         \* size: base point size (Milli)
    li,           \* buildTrajectoryLinesSplitByHorizon: loop position
    current,      \* buildTrajectoryLinesSplitByHorizon: current
    lines,        \* buildTrajectoryLinesSplitByHorizon: lines
    i,            \* buildPoints: loop variable i
    verts,        \* buildPoints: verts (one projected point per entry)
    sizes,        \* buildPoints: sizes
    indexMap,     \* buildPoints: indexMap
    tip,          \* Scene3D: the tooltip element, its display style and its text
    pick,         \* history: the ray hit the last mousemove was handled for
    \* ---- trajectory sampler (astro.ts) ----
    spc,          \* position of the sampler: idle, loop, done
    body,         \* which sampler runs: sun or moon
    stepMin,      \* params.stepMin
    start,        \* start: local midnight of the date (instant, minutes)
    end,          \* end = start.plus({days: 1})
    dt,           \* the loop variable dt
    pts,          \* pts: the instants of the samples pushed so far
    \* ---- application root (App, concatenated into Scene3D.tsx) ----
    apc,          \* idle, running, or crashed (the render threw, the tree is gone)
    slots,        \* useState slots: three entries, a CityHit or null
    dateISO,      \* useState dateISO
    uiStepMin,    \* useState stepMin
    data,         \* the useMemo value handed to Scene3D as props.data
    opts,         \* useState dark, showSun, showMoon, showHorizon, showBelowHorizon
    \* ---- sky projection (buildObjects.ts, toXYZ) ----
    ppc,          \* idle, call, done
    pin,          \* the sample handed to toXYZ
    pR,           \* the radius handed to toXYZ
    pout,         \* the vector it returns
    labels,       \* buildCompassLabels: the sprites of the group returned
    ticks,        \* buildAzimuthTicks: the lines of the group returned
    \* ---- moon phase icon (Scene3D.tsx, updateMoonAge) ----
    mpc,          \* idle, shade, done
    moonIll,      \* ill = SunCalc.getMoonIllumination(targetDate)
    dark,         \* props.dark
    my,           \* the outer loop variable y
    row,          \* the pixels of img.data written by the last turn of the outer loop
    epc,          \* idle, start, mounted, unmounted
    strict,       \* main.tsx: the tree is rendered inside React.StrictMode
    sceneProps,   \* the props of Scene3D the effect depends on
    children,     \* the child elements of the mount element, in document order
    listeners,    \* the event listeners registered and not removed
    frames,       \* the animation frame requests pending in the browser
    raf,          \* the variable raf of each run of the effect
    frameIds,     \* the animation frame requests made so far
    effectIds,    \* the runs of the effect so far
    active        \* the run of the effect whose cleanup React holds, 0 for none

searchVars == <<mounted, q, list, effects, issued, applied>>
buildVars ==
    <<bpc, kind, traj, show, size, li, current, lines, i, verts, sizes, indexMap, tip, pick>>
samplerVars == <<spc, body, stepMin, start, end, dt, pts>>
appVars == <<apc, slots, dateISO, uiStepMin, data, opts>>
projVars == <<ppc, pin, pR, pout, labels, ticks>>
moonVars == <<mpc, moonIll, dark, my, row>>
sceneVars ==
    <<epc, strict, sceneProps, children, listeners, frames, raf, frameIds, effectIds, active>>
vars == <<searchVars, buildVars, samplerVars, appVars, projVars, moonVars, sceneVars>>

----------------------------------------------------------------------------
(* Bounds of the model *)

MaxRequests == 4
MaxHits == 1
MaxSunLen == 5
MaxMoonLen == 3
MaxEffectRuns == 5
MaxFrames == 7

----------------------------------------------------------------------------
(* City search: lib/geo.ts searchCity and the CitySlot effect on q *)

RECURSIVE SeqsUpTo(_, _)
SeqsUpTo(S, n) ==
    IF n = 0 THEN {<<>>}
    ELSE LET shorter == SeqsUpTo(S, n - 1)
         IN  shorter \cup {Append(s, c) : s \in {t \in shorter : Len(t) = n - 1}, c \in S}

\* The texts typed into the search box: empty, blank, a name, a padded name
Queries == {<<>>, <<" ">>, <<"a">>, <<" ", "b", " ">>}

\* String.prototype.trim: drop leading and trailing white space
RECURSIVE TrimLeft(_)
TrimLeft(s) ==
    IF s = <<>> THEN <<>>
    ELSE IF Head(s) = " " THEN TrimLeft(Tail(s)) ELSE s

RECURSIVE TrimRight(_)
TrimRight(s) ==
    IF s = <<>> THEN <<>>
    ELSE IF s[Len(s)] = " " THEN TrimRight(SubSeq(s, 1, Len(s) - 1)) ELSE s

Trim(s) == TrimRight(TrimLeft(s))

\* Mutant of UsesNetwork: the query is not trimmed before the test
UsesNetwork_NoTrim(query) == query # <<>>

\* geo.ts line 29: an empty or blank query returns [] before any request
UsesNetwork(query) == Trim(query) # <<>>

\* The k-th place the geocoding service names for a query
Hit(query, k) == [name |-> <<query, k>>]

\* geo.ts lines 41-50: results.map(...) keeps every entry, in order
MapResults(query, n) == [k \in 1..n |-> Hit(query, k)]

\* geo.ts line 34: url.searchParams.set("count", "8"), the number of results asked for
Count == 8

\* The numbers of entries the body of a response can hold: the service is asked
\* for at most Count entries, but what it sends is its own choice
ServiceCounts == (0..MaxHits) \cup {Count + 1}

\* How a call of searchCity can end: the kind of its end, whether its promise is
\* rejected, and the list it resolves to otherwise
Outcome(k, rej, v) == [kind |-> k, rejected |-> rej, value |-> v]

\* The ends that are failures of the network: fetch throws, the status is not OK,
\* the body cannot be parsed
NetworkFailures == {"fetchThrows", "notOk", "badBody"}

\* geo.ts lines 27-51: what the promise of the call made by effect instance e can
\* settle to.  Nothing in searchCity catches: a throwing fetch (line 38) or
\* res.json() (line 40) rejects the promise; a status that is not OK returns [].
Outcomes(e) ==
    IF ~e.fetch
    THEN {Outcome("noRequest", FALSE, <<>>)}
    ELSE {Outcome("fetchThrows", TRUE, <<>>),
          Outcome("notOk", FALSE, <<>>),
          Outcome("badBody", TRUE, <<>>)}
         \cup {Outcome("ok", FALSE, MapResults(e.q, n)) : n \in ServiceCounts}

\* Sidebar.tsx line 138: the cleanup of the effect instance id clears its alive flag
Cleanup(es, id) ==
    {IF e.id = id THEN [e EXCEPT !.alive = FALSE] ELSE e : e \in es}

\* Sidebar.tsx lines 133-137: a new effect instance: alive = true, searchCity(q)
\* started; fetch tells whether the call issued a request
NewEffect(id, query) == [id |-> id, q |-> query, alive |-> TRUE, fetch |-> UsesNetwork(query)]

\* Mutant of ShouldApply: the alive flag is not consulted
ShouldApply_Always(e) == TRUE

\* Sidebar.tsx line 136: if (alive) setList(r)
ShouldApply(e) == e.alive

\* History of the slot: the effect the last setList(r) was called for, the newest
\* query and the mounted flag at that time, whether a resolved list was dropped,
\* and whether the request of the current query failed with no setList since
NoApplied == [id |-> 0, newest |-> 0, mounted |-> TRUE, dropped |-> 0, failed |-> FALSE]

InitSearchIdle ==
    /\ mounted = FALSE
    /\ q = <<>>
    /\ list = <<>>
    /\ effects = {}
    /\ issued = 0
    /\ applied = NoApplied

\* The component mounts: useState("") and useState([]), then the effect runs once
Mount ==
    /\ ~mounted
    /\ issued = 0
    /\ bpc = "idle" /\ spc = "idle" /\ apc = "idle" /\ ppc = "idle" /\ mpc = "idle"
    /\ epc = "idle"
    /\ mounted' = TRUE
    /\ issued' = 1
    /\ effects' = {NewEffect(1, q)}
    /\ UNCHANGED <<q, list, applied>>
    /\ UNCHANGED <<buildVars, samplerVars, appVars, projVars, moonVars, sceneVars>>

\* React.StrictMode (main.tsx): the effect is cleaned up and run again, state kept
StrictRemount ==
    /\ mounted
    /\ issued = 1
    /\ issued' = issued + 1
    /\ effects' = Cleanup(effects, issued) \cup {NewEffect(issued + 1, q)}
    /\ UNCHANGED <<mounted, q, list, applied>>
    /\ UNCHANGED <<buildVars, samplerVars, appVars, projVars, moonVars, sceneVars>>

\* onChange / the select button's setQ(""): q changes, the old effect is cleaned
\* up and a new one runs.  Setting the same text does not re-run the effect.
SetQ(v) ==
    /\ mounted
    /\ v # q
    /\ issued < MaxRequests
    /\ q' = v
    /\ issued' = issued + 1
    /\ effects' = Cleanup(effects, issued) \cup {NewEffect(issued + 1, v)}
    /\ UNCHANGED <<mounted, list, applied>>
    /\ UNCHANGED <<buildVars, samplerVars, appVars, projVars, moonVars, sceneVars>>

\* The promise of effect instance e settles with outcome o (Sidebar.tsx lines
\* 135-136): a resolved list is handed to setList if the instance is alive; a
\* rejection ends the async function before setList
Respond(e, o) ==
    /\ e \in effects
    /\ o \in Outcomes(e)
    /\ effects' = effects \ {e}
    /\ IF ~o.rejected
       THEN IF ShouldApply(e)
            THEN /\ list' = o.value
                 /\ applied' = [applied EXCEPT !.id = e.id, !.newest = issued,
                                                !.mounted = mounted,
                                                !.failed = (o.kind \in NetworkFailures)]
            ELSE /\ applied' = [applied EXCEPT !.dropped = 1]
                 /\ UNCHANGED list
       ELSE /\ applied' = [applied EXCEPT !.failed = (@ \/ e.alive)]
            /\ UNCHANGED list
    /\ UNCHANGED <<mounted, q, issued>>
    /\ UNCHANGED <<buildVars, samplerVars, appVars, projVars, moonVars, sceneVars>>

\* The component unmounts: the cleanup of the current effect runs
Unmount ==
    /\ mounted
    /\ mounted' = FALSE
    /\ effects' = Cleanup(effects, issued)
    /\ UNCHANGED <<q, list, issued, applied>>
    /\ UNCHANGED <<buildVars, samplerVars, appVars, projVars, moonVars, sceneVars>>

----------------------------------------------------------------------------
(* Geometry builders: three/buildObjects.ts, called from Scene3D.tsx *)

Milli == 1000
IllumScale == 10

\* astro.ts line 20: illum is optional; NoIllum stands for an absent illum
NoIllum == -1

\* Scene3D.tsx line 98: const R = 2.0
R == 2000

\* Scene3D.tsx lines 116 and 129: the size argument of buildPoints
BaseSize(k) == IF k = "sun" THEN 90 ELSE 110

\* Math.sin on whole degrees, in thousandths (Bhaskara's rational approximation,
\* exact at 0, 30, 90, 150 and 180 degrees)
SinHalfTurn(d) == (4 * Milli * d * (180 - d)) \div (40500 - d * (180 - d))

Sin(deg) ==
    LET d == deg % 360
    IN  IF d <= 180 THEN SinHalfTurn(d) ELSE -SinHalfTurn(d - 180)

Cos(deg) == Sin(deg + 90)

\* A trajectory sample (TrajPoint without its time)
TrajPoint(alt, azN, illum) == [alt |-> alt, azN |-> azN, illum |-> illum]

\* Mutant of toXYZ: the horizontal radius is not shortened by the altitude
toXYZ_FlatRadius(p, radius) ==
    LET r == radius
    IN  [x |-> (r * Sin(p.azN)) \div Milli,
         y |-> (radius * Sin(p.alt)) \div Milli,
         z |-> (r * Cos(p.azN)) \div Milli]

\* buildObjects.ts lines 18-31
toXYZ(p, radius) ==
    LET r == (radius * Cos(p.alt)) \div Milli
    IN  [x |-> (r * Sin(p.azN)) \div Milli,
         y |-> (radius * Sin(p.alt)) \div Milli,
         z |-> (r * Cos(p.azN)) \div Milli]

\* current.push(v.x, v.y, v.z) / verts.push(v.x, v.y, v.z)
Push3(arr, v) == arr \o <<v.x, v.y, v.z>>

\* Mutant of Visible: a sample on the horizon counts as below it
Visible_Strict(p, showBelowHorizon) == showBelowHorizon \/ p.alt > 0

\* buildObjects.ts line 68
Visible(p, showBelowHorizon) == showBelowHorizon \/ p.alt >= 0

\* Mutant of Skipped: the visibility policy is ignored
Skipped_IgnorePolicy(p, showBelowHorizon) == p.alt < 0

\* buildObjects.ts line 106
Skipped(p, showBelowHorizon) == ~showBelowHorizon /\ p.alt < 0

\* Mutant of LongEnough: the three numbers of one point are taken for a line
LongEnough_OnePoint(cur) == Len(cur) >= 3

\* buildObjects.ts line 57: a line needs 2 points, 3 numbers each
LongEnough(cur) == Len(cur) >= 6

\* Mutant of PushCurrent: current is pushed whatever its length
PushCurrent_Always(ls, cur) == Append(ls, cur)

\* Mutant of PushCurrent: the finished line is put in front (unshift for push)
PushCurrent_Unshift(ls, cur) == IF LongEnough(cur) THEN <<cur>> \o ls ELSE ls

\* buildObjects.ts lines 56-64, the lines it leaves (current is reset by the caller)
PushCurrent(ls, cur) == IF LongEnough(cur) THEN Append(ls, cur) ELSE ls

\* buildObjects.ts line 113: p.illum ?? 1
IllumOrDefault(p) == IF p.illum = NoIllum THEN IllumScale ELSE p.illum

\* Mutant of PointSize: the constant term 0.6 is left out
PointSize_NoFloor(sz, k) == sz * ((800 * k) \div IllumScale)

\* buildObjects.ts line 114: size * (0.6 + 0.8 * k), in millionths
PointSize(sz, k) == sz * (600 + (800 * k) \div IllumScale)

\* Mutant of MapEntry: the position in the filtered output is stored instead
MapEntry_DisplayIndex(n) == Len(indexMap)

\* buildObjects.ts line 110: the index pushed for loop position n
MapEntry(n) == n

\* Altitudes (degrees) and illuminated fractions (tenths) the samples are drawn from
Alts == {-3, 0, 5}
Illums == {0, 5, 10}

\* The azimuth of the n-th sample: the body moves 15 degrees between samples
AzAt(n) == (15 * n) % 360

\* What a call that can throw comes back with
Returned(v) == [threw |-> FALSE, value |-> v]
Thrown == [threw |-> TRUE, value |-> <<>>]

\* tz-lookup: throws RangeError("invalid coordinates") outside the globe, else
\* names a zone; a zone is modelled by its offset from UTC in minutes
tzLookup(lat, lon) ==
    IF lat >= -90 /\ lat <= 90 /\ lon >= -180 /\ lon <= 180
    THEN Returned(60 * ((lon + 7) \div 15))
    ELSE Thrown

\* Mutant of cityTimezone: a failed lookup falls back to UTC
cityTimezone_FallbackUTC(lat, lon) ==
    IF tzLookup(lat, lon).threw THEN Returned(0) ELSE tzLookup(lat, lon)

\* astro.ts lines 45-47
cityTimezone(lat, lon) == tzLookup(lat, lon)

\* A calendar day without a change of offset, in minutes
DayMinutes == 24 * 60

\* A trajectory sample with its instant t (minutes)
TimedPoint(p, t) == [alt |-> p.alt, azN |-> p.azN, illum |-> p.illum, t |-> t]

\* The city whose trajectory is built, the offset of its zone from UTC (minutes),
\* and the instant of its n-th sample: local midnight and 10 minutes per sample
BuiltCity == [label |-> "Tokyo", lat |-> 35, lon |-> 139]
ZoneOffsetOf(city) == cityTimezone(city.lat, city.lon).value
TimeAt(city, n) == 10 * (n - 1) - ZoneOffsetOf(city)

SunTrajOf(alts) ==
    [n \in 1..Len(alts) |->
        TimedPoint(TrajPoint(alts[n], AzAt(n), NoIllum), TimeAt(BuiltCity, n))]
MoonTrajOf(s) ==
    [n \in 1..Len(s) |->
        TimedPoint(TrajPoint(s[n][1], AzAt(n), s[n][2]), TimeAt(BuiltCity, n))]

\* The two trajectories the specification gives as examples (altitudes in degrees)
ExampleAlts4 == <<5, -3, 2, 1>>
ExampleAlts10 == <<5, 5, -3, 5, 5, -3, 5, -3, 5, 5>>

SunTrajectories ==
    {SunTrajOf(a) : a \in SeqsUpTo(Alts, MaxSunLen) \cup {ExampleAlts4, ExampleAlts10}}
MoonTrajectories == {MoonTrajOf(s) : s \in SeqsUpTo(Alts \X Illums, MaxMoonLen)}

\* Scene3D.tsx line 167: the tooltip is created with display none and no text
NoTip == [display |-> "none", kind |-> "", city |-> "", t |-> 0, altDeg |-> 0, azDeg |-> 0]

\* No object with userData.kind is under the pointer (hits.length === 0)
NoRayHit == [object |-> 0, index |-> 0]

InitBuildIdle ==
    /\ tip = NoTip
    /\ pick = NoRayHit
    /\ bpc = "idle"
    /\ kind = "sun"
    /\ traj = <<>>
    /\ show = FALSE
    /\ size = 0
    /\ li = 0
    /\ current = <<>>
    /\ lines = <<>>
    /\ i = 0
    /\ verts = <<>>
    /\ sizes = <<>>
    /\ indexMap = <<>>

\* Scene3D.tsx lines 112-131: one trajectory of one city is about to be built
InitBuildStart ==
    /\ tip = NoTip
    /\ pick = NoRayHit
    /\ bpc = "lines"
    /\ kind \in {"sun", "moon"}
    /\ traj \in (IF kind = "sun" THEN SunTrajectories ELSE MoonTrajectories)
    /\ show \in BOOLEAN
    /\ size = BaseSize(kind)
    /\ li = 0
    /\ current = <<>>
    /\ lines = <<>>
    /\ i = 0
    /\ verts = <<>>
    /\ sizes = <<>>
    /\ indexMap = <<>>

pointsUnchanged == UNCHANGED <<i, verts, sizes, indexMap>>
linesUnchanged == UNCHANGED <<li, current, lines>>
inputUnchanged ==
    UNCHANGED <<kind, traj, show, size, tip, pick,
                searchVars, samplerVars, appVars, projVars, moonVars, sceneVars>>

\* buildTrajectoryLinesSplitByHorizon, loop body for a visible sample (lines 76-78)
LineAppend ==
    /\ bpc = "lines"
    /\ li < Len(traj)
    /\ Visible(traj[li + 1], show)
    /\ current' = Push3(current, toXYZ(traj[li + 1], R))
    /\ li' = li + 1
    /\ UNCHANGED <<bpc, lines>>
    /\ inputUnchanged /\ pointsUnchanged

\* buildTrajectoryLinesSplitByHorizon, loop body for an invisible sample (lines 70-74)
LineBreak ==
    /\ bpc = "lines"
    /\ li < Len(traj)
    /\ ~Visible(traj[li + 1], show)
    /\ lines' = PushCurrent(lines, current)
    /\ current' = <<>>
    /\ li' = li + 1
    /\ UNCHANGED bpc
    /\ inputUnchanged /\ pointsUnchanged

\* buildTrajectoryLinesSplitByHorizon, after the loop (lines 81-83)
LineFlush ==
    /\ bpc = "lines"
    /\ li = Len(traj)
    /\ lines' = PushCurrent(lines, current)
    /\ current' = <<>>
    /\ bpc' = "points"
    /\ UNCHANGED li
    /\ inputUnchanged /\ pointsUnchanged

\* buildPoints, loop body for a kept sample (lines 108-114)
PointKeep ==
    /\ bpc = "points"
    /\ i < Len(traj)
    /\ ~Skipped(traj[i + 1], show)
    /\ verts' = Push3(verts, toXYZ(traj[i + 1], R))
    /\ indexMap' = Append(indexMap, MapEntry(i))
    /\ sizes' = Append(sizes, PointSize(size, IllumOrDefault(traj[i + 1])))
    /\ i' = i + 1
    /\ UNCHANGED bpc
    /\ inputUnchanged /\ linesUnchanged

\* buildPoints, loop body for a skipped sample (line 106)
PointSkip ==
    /\ bpc = "points"
    /\ i < Len(traj)
    /\ Skipped(traj[i + 1], show)
    /\ i' = i + 1
    /\ UNCHANGED <<bpc, verts, sizes, indexMap>>
    /\ inputUnchanged /\ linesUnchanged

\* buildPoints, after the loop (lines 117-151): the Points object is returned
PointsReturn ==
    /\ bpc = "points"
    /\ i = Len(traj)
    /\ bpc' = "done"
    /\ inputUnchanged /\ linesUnchanged /\ pointsUnchanged

\* buildPoints as a function (lines 104-116): the indexMap of a trajectory
RECURSIVE PointsLoop(_, _, _, _)
PointsLoop(points, showBelowHorizon, n, acc) ==
    IF n >= Len(points) THEN acc
    ELSE IF Skipped(points[n + 1], showBelowHorizon)
    THEN PointsLoop(points, showBelowHorizon, n + 1, acc)
    ELSE PointsLoop(points, showBelowHorizon, n + 1, Append(acc, MapEntry(n)))

\* A second city in the scene and its moon trajectory: below the horizon first
NeighbourCity == [label |-> "Lima", lat |-> -12, lon |-> -77]
NeighbourTraj ==
    [n \in 1..3 |->
        TimedPoint(TrajPoint(<<-3, 5, 0>>[n], AzAt(n + 6), IllumScale),
                   TimeAt(NeighbourCity, n))]

\* Scene3D.tsx lines 121-128 and 135-142: the userData of the point clouds of the
\* scene: the cloud that was built, and the moon cloud of the second city
Clouds ==
    <<[kind |-> kind, traj |-> traj, city |-> BuiltCity, indexMap |-> indexMap],
      [kind |-> "moon", traj |-> NeighbourTraj, city |-> NeighbourCity,
       indexMap |-> PointsLoop(NeighbourTraj, show, 0, <<>>)]>>

\* What the raycaster can report as hits[0]: a cloud and the index of one of the
\* points of its geometry
RayHits ==
    UNION {{[object |-> o, index |-> d] : d \in 0..(Len(Clouds[o].indexMap) - 1)} :
              o \in 1..Len(Clouds)}

\* Mutant of TipIndex: the display index is taken for the index of the sample
TipIndex_DisplayIndex(userData, displayIdx) == displayIdx

\* Scene3D.tsx lines 539-541: the index of the sample of a displayed point
TipIndex(userData, displayIdx) ==
    IF displayIdx < Len(userData.indexMap) THEN userData.indexMap[displayIdx + 1]
    ELSE displayIdx

\* Scene3D.tsx lines 224-232 and 244-251: formatTime / formatTimeLocal, the time of
\* day of an instant in the zone of the city (minutes after local midnight)
formatTime(p, city) == (p.t + ZoneOffsetOf(city)) % DayMinutes

\* Scene3D.tsx lines 509-588: onMouseMove with the first hit h, or none
onMouseMove(h) ==
    /\ bpc = "done"
    /\ pick' = h
    /\ IF h = NoRayHit
       THEN tip' = [tip EXCEPT !.display = "none"]
       ELSE LET userData == Clouds[h.object]
                idx == TipIndex(userData, h.index)
            IN  IF idx >= Len(userData.traj)
                THEN tip' = [tip EXCEPT !.display = "none"]
                ELSE LET p == userData.traj[idx + 1]
                     IN  tip' = [display |-> "block",
                                 kind |-> userData.kind,
                                 city |-> userData.city.label,
                                 t |-> formatTime(p, userData.city),
                                 altDeg |-> p.alt,
                                 azDeg |-> p.azN]
    /\ UNCHANGED <<bpc, kind, traj, show, size>>
    /\ UNCHANGED <<searchVars, samplerVars, appVars, projVars, moonVars, sceneVars>>
    /\ linesUnchanged /\ pointsUnchanged

NextBuild ==
    \/ LineAppend
    \/ LineBreak
    \/ LineFlush
    \/ PointKeep
    \/ PointSkip
    \/ PointsReturn
    \/ \E h \in RayHits \cup {NoRayHit} : onMouseMove(h)


----------------------------------------------------------------------------
(* Trajectory samplers: lib/astro.ts buildSunTrajectory, buildMoonTrajectory *)

\* Sidebar.tsx lines 48-50: the intervals the step select offers
UISteps == {5, 10, 15}

\* Other positive intervals a caller may pass: some divide the day, some do not,
\* some are a whole day or more
OtherSteps == {7, 25, 700, 1380, 1440, 1441, 1500, 2000}

Steps == UISteps \cup OtherSteps

\* Offsets from UTC (minutes) of the zones cityTimezone resolves to
ZoneOffsets == {0, 540, -300}

\* start.plus({days: 1}) is a calendar day: 24 hours, or 23 or 25 when the
\* zone changes its offset during that day
DayLengths == {23 * 60, 24 * 60, 25 * 60}

\* JavaScript's % : the remainder has the sign of the dividend
JsRem(a, b) == IF a >= 0 THEN a % b ELSE -((-a) % b)

\* Mutant of toAzFromNorth: the half turn from south to north is left out
toAzFromNorth_NoHalfTurn(suncalcAzSouth0WestPlus) ==
    LET twoPi == 360
        azN == JsRem(suncalcAzSouth0WestPlus, twoPi)
    IN  IF azN < 0 THEN azN + twoPi ELSE azN

\* astro.ts lines 54-58, in degrees
toAzFromNorth(suncalcAzSouth0WestPlus) ==
    LET twoPi == 360
        azN == JsRem(suncalcAzSouth0WestPlus + 180, twoPi)
    IN  IF azN < 0 THEN azN + twoPi ELSE azN

\* Stand-ins for the ephemeris engine (SunCalc), which the samplers call once per
\* instant: the sky turns one degree in four minutes; azimuth is south-referenced
\* in (-180, 180], and the moon trails the sun
HourAngle(t, lag) == (((t - lag) \div 4) % 360) - 179
SunCalcPosition(t) ==
    [azimuth |-> HourAngle(t, 0), altitude |-> (40 * Cos(HourAngle(t, 0))) \div Milli]
SunCalcMoonPosition(t) ==
    [azimuth |-> HourAngle(t, 400), altitude |-> (50 * Cos(HourAngle(t, 400))) \div Milli]
SunCalcMoonIllumination(t) == [fraction |-> ((t \div 1440) + 3) % (IllumScale + 1)]

\* astro.ts lines 106-110: the sample pushed by buildSunTrajectory
SunSample(t) ==
    LET pos == SunCalcPosition(t)
    IN  [t |-> t, azN |-> toAzFromNorth(pos.azimuth), alt |-> pos.altitude, illum |-> NoIllum]

\* astro.ts lines 160-165: the sample pushed by buildMoonTrajectory
MoonSample(t) ==
    LET pos == SunCalcMoonPosition(t)
        ill == SunCalcMoonIllumination(t)
    IN  [t |-> t, azN |-> toAzFromNorth(pos.azimuth), alt |-> pos.altitude,
         illum |-> ill.fraction]

\* Mutant of InDay: the end of the day is included
InDay_Inclusive(t, e) == t <= e

\* astro.ts lines 86 and 141: the loop condition dt < end
InDay(t, e) == t < e

\* Mutant of Advance: the interval is taken for hours
Advance_Hours(t, step) == t + step * 60

\* astro.ts lines 86 and 141: dt = dt.plus({ minutes: stepMin })
Advance(t, step) == t + step

InitSamplerIdle ==
    /\ spc = "idle"
    /\ body = "sun"
    /\ stepMin = 0
    /\ start = 0
    /\ end = 0
    /\ dt = 0
    /\ pts = <<>>

\* astro.ts lines 77-84 and 132-139: the zone is resolved, start and end are
\* computed, pts is empty and dt = start
InitSamplerStart ==
    /\ spc = "loop"
    /\ body \in {"sun", "moon"}
    /\ stepMin \in Steps
    /\ start \in {-off : off \in ZoneOffsets}
    /\ end \in {start + len : len \in DayLengths}
    /\ dt = start
    /\ pts = <<>>

paramsUnchanged ==
    UNCHANGED <<body, stepMin, start, end, searchVars, buildVars, appVars, projVars, moonVars, sceneVars>>

\* buildSunTrajectory: one turn of the loop (lines 86-111)
SunStep ==
    /\ spc = "loop"
    /\ body = "sun"
    /\ InDay(dt, end)
    /\ pts' = Append(pts, SunSample(dt))
    /\ dt' = Advance(dt, stepMin)
    /\ UNCHANGED spc
    /\ paramsUnchanged

\* buildMoonTrajectory: one turn of the loop (lines 141-166)
MoonStep ==
    /\ spc = "loop"
    /\ body = "moon"
    /\ InDay(dt, end)
    /\ pts' = Append(pts, MoonSample(dt))
    /\ dt' = Advance(dt, stepMin)
    /\ UNCHANGED spc
    /\ paramsUnchanged

\* The loop ends and pts is returned (lines 112 and 167)
SamplerReturn ==
    /\ spc = "loop"
    /\ ~InDay(dt, end)
    /\ spc' = "done"
    /\ UNCHANGED <<dt, pts>>
    /\ paramsUnchanged

----------------------------------------------------------------------------
(* Application root: App, its slots and the useMemo that computes data *)

\* null in a slot
NoHit == [name |-> "", latitude |-> 0, longitude |-> 0]

\* Places the geocoding service can name (whole degrees).  The last one carries
\* coordinates outside the globe, for which no zone can be resolved.
CityHits ==
    {[name |-> "Tokyo", latitude |-> 35, longitude |-> 139],
     [name |-> "Lima", latitude |-> -12, longitude |-> -77],
     [name |-> "Nowhere", latitude |-> 91, longitude |-> 0]}

\* The date input: day numbers; NoDate is the cleared input ("")
NoDate == -1
Dates == {0, 1, NoDate}

\* The most turns the loop can take: one per minute of the day
MaxTurns == DayMinutes

\* astro.ts lines 86-111 and 141-166 as a function: the loop variable and the
\* samples pushed after at most n turns of the loop entered with dt = t.  The
\* turns are taken in two halves to keep the evaluation shallow.
RECURSIVE Turns(_, _, _, _, _)
Turns(b, t, e, step, n) ==
    IF n = 0 \/ ~InDay(t, e) THEN [dt |-> t, pts |-> <<>>]
    ELSE IF n = 1
    THEN [dt |-> Advance(t, step),
          pts |-> <<IF b = "sun" THEN SunSample(t) ELSE MoonSample(t)>>]
    ELSE LET first == Turns(b, t, e, step, n \div 2)
             rest == Turns(b, first.dt, e, step, n - n \div 2)
         IN  [dt |-> rest.dt, pts |-> first.pts \o rest.pts]

SampleLoop(b, t, e, step) == Turns(b, t, e, step, MaxTurns).pts

\* astro.ts lines 71-113 and 126-168: buildSunTrajectory / buildMoonTrajectory.
\* The zone is resolved first and a throw leaves the function at once.  For an
\* unparsable date start and end are invalid, dt < end is false and pts stays [].
buildTrajectory(b, params) ==
    LET tz == cityTimezone(params.lat, params.lon)
    IN  IF tz.threw THEN Thrown
        ELSE IF params.dateISO = NoDate THEN Returned(<<>>)
        ELSE LET dayStart == params.dateISO * DayMinutes - tz.value
                 dayEnd == dayStart + DayMinutes
             IN  Returned(SampleLoop(b, dayStart, dayEnd, params.stepMin))

\* COLORS
COLORS == <<"#ff8a3d", "#35d07f", "#7c6cff">>

\* toCity(hit, idx), idx 0-based
toCity(hit, idx) ==
    [id |-> <<hit.name, hit.latitude, hit.longitude>>,
     label |-> hit.name,
     lat |-> hit.latitude,
     lon |-> hit.longitude,
     color |-> COLORS[(idx % Len(COLORS)) + 1]]

\* The arguments App can pass to the samplers, and the samplers tabulated over them
SamplerInputs ==
    {[lat |-> h.latitude, lon |-> h.longitude, dateISO |-> d, stepMin |-> step] :
        h \in CityHits, d \in Dates, step \in UISteps}
SamplerTable ==
    [b \in {"sun", "moon"} |-> [params \in SamplerInputs |-> buildTrajectory(b, params)]]

\* The body of the useMemo: slots.forEach from slot idx on, out collected so far.
\* A throw of a sampler leaves the forEach and the useMemo.
RECURSIVE ComposeFrom(_, _, _, _, _)
ComposeFrom(ss, d, step, idx, out) ==
    IF idx >= Len(ss) THEN Returned(out)
    ELSE IF ss[idx + 1] = NoHit THEN ComposeFrom(ss, d, step, idx + 1, out)
    ELSE LET city == toCity(ss[idx + 1], idx)
             params == [lat |-> city.lat, lon |-> city.lon, dateISO |-> d, stepMin |-> step]
             sun == SamplerTable["sun"][params]
             moon == SamplerTable["moon"][params]
         IN  IF sun.threw \/ moon.threw THEN Thrown
             ELSE ComposeFrom(ss, d, step, idx + 1,
                              Append(out, [city |-> city, sun |-> sun.value,
                                           moon |-> moon.value]))

UseMemoData(ss, d, step) == ComposeFrom(ss, d, step, 0, <<>>)

\* The display options and their initial values (App, lines 660-668)
OptionNames == {"dark", "showSun", "showMoon", "showHorizon", "showBelowHorizon"}
InitialOptions ==
    [dark |-> TRUE, showSun |-> TRUE, showMoon |-> TRUE, showHorizon |-> TRUE,
     showBelowHorizon |-> FALSE]

InitAppIdle ==
    /\ apc = "idle"
    /\ slots = <<>>
    /\ dateISO = NoDate
    /\ uiStepMin = 0
    /\ data = <<>>
    /\ opts = InitialOptions

\* App is mounted: three empty slots, today's date, stepMin 10, data = []
InitAppStart ==
    /\ apc = "running"
    /\ slots = <<NoHit, NoHit, NoHit>>
    /\ dateISO \in Dates \ {NoDate}
    /\ uiStepMin = 10
    /\ data = <<>>
    /\ opts = InitialOptions

appOthersUnchanged == UNCHANGED <<searchVars, buildVars, samplerVars, projVars, moonVars, sceneVars>>

\* Mutant of DepsChanged: stepMin is missing from the dependency list
DepsChanged_NoStepMin(newSlots, d, step) == newSlots \/ d # dateISO

\* Scene3D.tsx line 695: the dependency list [slots, dateISO, stepMin] of the
\* useMemo, compared with Object.is; newSlots tells that slots is a new array
DepsChanged(newSlots, d, step) == newSlots \/ d # dateISO \/ step # uiStepMin

\* App renders with the state (ss, d, step, o).  The useMemo runs its body when a
\* dependency changed and hands back the value it kept otherwise.  No error
\* boundary surrounds App: when the useMemo throws, React removes the whole tree
\* and nothing is shown.
Render(ss, d, step, o, newSlots) ==
    LET r == IF DepsChanged(newSlots, d, step) THEN UseMemoData(ss, d, step)
             ELSE Returned(data)
    IN  /\ slots' = ss
        /\ dateISO' = d
        /\ uiStepMin' = step
        /\ opts' = o
        /\ IF r.threw
           THEN apc' = "crashed" /\ data' = <<>>
           ELSE apc' = "running" /\ data' = r.value
        /\ appOthersUnchanged

\* Mutant of ReplaceSlot: clearing a slot removes its entry from the array
ReplaceSlot_RemoveOnClear(prev, idx, hit) ==
    IF hit = NoHit
    THEN [n \in 1..(Len(prev) - 1) |-> IF n - 1 < idx THEN prev[n] ELSE prev[n + 1]]
    ELSE [n \in 1..Len(prev) |-> IF n - 1 = idx THEN hit ELSE prev[n]]

\* Scene3D.tsx line 678: prev.map((x, idx) => (idx === i ? hit : x))
ReplaceSlot(prev, idx, hit) ==
    [n \in 1..Len(prev) |-> IF n - 1 = idx THEN hit ELSE prev[n]]

\* setSlot(idx, hit): a city is chosen for a slot, or the slot is cleared;
\* prev.map(...) always makes a new array
setSlot(idx, hit) ==
    /\ apc = "running"
    /\ Render(ReplaceSlot(slots, idx, hit), dateISO, uiStepMin, opts, TRUE)

\* setDateISO(d): the date input changes
setDateISO(d) ==
    /\ apc = "running"
    /\ Render(slots, d, uiStepMin, opts, FALSE)

\* setStepMin(step): the interval select changes
setStepMin(step) ==
    /\ apc = "running"
    /\ Render(slots, dateISO, step, opts, FALSE)

\* setDark, setShowSun, setShowMoon, setShowHorizon, setShowBelowHorizon: a check
\* box of the sidebar is switched
setOption(name, checked) ==
    /\ apc = "running"
    /\ Render(slots, dateISO, uiStepMin, [opts EXCEPT ![name] = checked], FALSE)

NextApp ==
    \/ \E idx \in 0..2 : \E hit \in CityHits \cup {NoHit} : setSlot(idx, hit)
    \/ \E d \in Dates : setDateISO(d)
    \/ \E step \in UISteps : setStepMin(step)
    \/ \E name \in OptionNames : \E checked \in BOOLEAN : setOption(name, checked)

----------------------------------------------------------------------------
(* Sky projection: buildObjects.ts toXYZ called on its own *)

\* Altitudes (degrees, horizon to zenith and below), azimuths and radii (Milli)
ProjAlts == {-90, -45, -3, 0, 5, 45, 90}
ProjAzimuths == {15 * k : k \in 0..23}
ProjRadii == {1000, R, 3500}

InitProjIdle ==
    /\ ppc = "idle"
    /\ pin = TrajPoint(0, 0, NoIllum)
    /\ pR = 0
    /\ pout = [x |-> 0, y |-> 0, z |-> 0]
    /\ labels = <<>>
    /\ ticks = <<>>

InitProjStart ==
    /\ ppc = "call"
    /\ pin \in {TrajPoint(alt, az, NoIllum) : alt \in ProjAlts, az \in ProjAzimuths}
    /\ pR \in ProjRadii
    /\ pout = [x |-> 0, y |-> 0, z |-> 0]
    /\ labels = <<>>
    /\ ticks = <<>>

\* buildObjects.ts lines 18-31: toXYZ(p, R) returns its vector
Project ==
    /\ ppc = "call"
    /\ pout' = toXYZ(pin, pR)
    /\ ppc' = "done"
    /\ UNCHANGED <<pin, pR, labels, ticks>>
    /\ UNCHANGED <<searchVars, buildVars, samplerVars, appVars, moonVars, sceneVars>>

\* A product with a decimal factor given in hundredths (R * 1.15, R * 1.02)
TimesHundredths(v, h) == (v * h) \div 100

\* buildObjects.ts lines 281-286 and 304: the text of each label and the position
\* its sprite is set to, pos[0], 0.01, pos[2]
buildCompassLabels(radius) ==
    <<[text |-> "N", x |-> 0, y |-> 10, z |-> -TimesHundredths(radius, 115)],
      [text |-> "E", x |-> TimesHundredths(radius, 115), y |-> 10, z |-> 0],
      [text |-> "S", x |-> 0, y |-> 10, z |-> TimesHundredths(radius, 115)],
      [text |-> "W", x |-> -TimesHundredths(radius, 115), y |-> 10, z |-> 0]>>

\* buildObjects.ts line 210: the length of the tick at deg degrees
TickLen(deg) == IF deg % 30 = 0 THEN 100 ELSE IF deg % 10 = 0 THEN 70 ELSE 40

\* buildObjects.ts lines 209-224: the two ends of the tick at deg degrees
Tick(radius, deg) ==
    LET r1 == TimesHundredths(radius, 102)
        r2 == r1 - TickLen(deg)
    IN  [x1 |-> (r1 * Sin(deg)) \div Milli, z1 |-> (r1 * Cos(deg)) \div Milli,
         x2 |-> (r2 * Sin(deg)) \div Milli, z2 |-> (r2 * Cos(deg)) \div Milli,
         y |-> 2]

\* buildObjects.ts lines 207-228: one line per 5 degrees, from 0 up to 355
buildAzimuthTicks(radius) == [k \in 1..72 |-> Tick(radius, 5 * (k - 1))]

\* Scene3D.tsx lines 107-108: the ticks and the labels are built for the scene
BuildCompass ==
    /\ ppc \in {"call", "done"}
    /\ labels = <<>>
    /\ ticks' = buildAzimuthTicks(pR)
    /\ labels' = buildCompassLabels(pR)
    /\ UNCHANGED <<ppc, pin, pR, pout>>
    /\ UNCHANGED <<searchVars, buildVars, samplerVars, appVars, moonVars, sceneVars>>

NextProj == Project \/ BuildCompass

----------------------------------------------------------------------------
(* Moon phase icon: the pixel loop of updateMoonAge in Scene3D.tsx *)

\* Scene3D.tsx line 377: canvas.width = canvas.height = 64
CanvasSize == 64

\* Pixel coordinates are fixed-point numbers in tenths of a pixel
Tenth == 10

\* Phases are 24ths of a lunation: 0 new, 6 first quarter, 12 full, 18 last quarter
PhaseScale == 24

\* Division that rounds toward zero, so that -a / b = -(a / b) as in floating point
Trunc(a, b) == IF a >= 0 THEN a \div b ELSE -((-a) \div b)

Clamp(v, lo, hi) == IF v < lo THEN lo ELSE IF v > hi THEN hi ELSE v

\* Math.sqrt on integers: the greatest k in lo..hi with k * k <= n
RECURSIVE SqrtSearch(_, _, _)
SqrtSearch(n, lo, hi) ==
    IF lo >= hi THEN lo
    ELSE LET mid == (lo + hi + 1) \div 2
         IN  IF mid * mid <= n THEN SqrtSearch(n, mid, hi) ELSE SqrtSearch(n, lo, mid - 1)

\* Math.pow(v, e) for v in 0..1 (Milli): linear interpolation between the knots,
\* values are the powers of the knots rounded to thousandths
PowKnots == <<0, 10, 20, 50, 100, 200, 300, 400, 500, 600, 700, 800, 900, 1000>>
Pow085 == <<0, 20, 36, 78, 141, 255, 359, 459, 555, 648, 738, 827, 914, 1000>>
Pow095 == <<0, 13, 24, 58, 112, 217, 319, 419, 518, 616, 713, 809, 905, 1000>>

PowInterp(v, values) ==
    LET j == CHOOSE k \in 1..(Len(PowKnots) - 1) : PowKnots[k] <= v /\ v <= PowKnots[k + 1]
    IN  values[j] + ((v - PowKnots[j]) * (values[j + 1] - values[j]))
                        \div (PowKnots[j + 1] - PowKnots[j])

\* Scene3D.tsx lines 402-404: centerX = centerY = width / 2, radius = width * 0.45
Centre == (CanvasSize * Tenth) \div 2
Radius == (CanvasSize * Tenth * 45) \div 100

\* Scene3D.tsx lines 415-418: the lit colour and the colour of the unlit side
litRGB == [r |-> 225, g |-> 222, b |-> 210]
darkRGB(dk) == IF dk THEN [r |-> 20, g |-> 26, b |-> 42] ELSE [r |-> 220, g |-> 226, b |-> 242]

\* Mutant of PixelCentre: the half pixel is left out
PixelCentre_NoHalf(c) == c * Tenth

\* Scene3D.tsx lines 433-434: x + 0.5, the centre of pixel column (or row) c
PixelCentre(c) == c * Tenth + Tenth \div 2

\* Mutant of OutsideDisk: the square around the disk is tested instead of the disk
OutsideDisk_Square(x, yy) ==
    LET dx == PixelCentre(x) - Centre
        dy == PixelCentre(yy) - Centre
    IN  dx * dx > Radius * Radius \/ dy * dy > Radius * Radius

\* Scene3D.tsx lines 433-439: rr > r * r
OutsideDisk(x, yy) ==
    LET dx == PixelCentre(x) - Centre
        dy == PixelCentre(yy) - Centre
    IN  dx * dx + dy * dy > Radius * Radius

\* Mutant of LightDir: sine and cosine are exchanged
LightDir_SinCosSwapped(il) ==
    LET alpha == (360 * il.phase) \div PhaseScale
    IN  [lx |-> Cos(alpha), lz |-> -Sin(alpha)]

\* Mutant of LightDir: the angle is taken from the illuminated fraction
LightDir_FromFraction(il) ==
    LET alpha == (180 * il.fraction) \div IllumScale
    IN  [lx |-> Sin(alpha), lz |-> -Cos(alpha)]

\* Scene3D.tsx lines 422-425: the light direction of the phase (Milli)
LightDir(il) ==
    LET alpha == (360 * il.phase) \div PhaseScale
    IN  [lx |-> Sin(alpha), lz |-> -Cos(alpha)]

\* Scene3D.tsx lines 444-446: the unit normal of the sphere at a pixel of the disk
Normal(x, yy) ==
    LET dx == PixelCentre(x) - Centre
        dy == PixelCentre(yy) - Centre
        nzsq == ((Radius * Radius - dx * dx - dy * dy) * 10000) \div (Radius * Radius)
    IN  [nx |-> Trunc(dx * Milli, Radius),
         ny |-> Trunc(dy * Milli, Radius),
         nz |-> SqrtSearch(IF nzsq < 0 THEN 0 ELSE nzsq * 100, 0, Milli)]

\* Scene3D.tsx line 456: ndotl = nx * lx + nz * lz (Milli)
NdotL(il, x, yy) ==
    LET n == Normal(x, yy)
        l == LightDir(il)
    IN  Trunc(n.nx * l.lx + n.nz * l.lz, Milli)

\* Scene3D.tsx lines 449-472: the intensity I of a pixel of the disk (Milli), with
\* ambient 0.02, gamma 0.95, limbDark 0.10, edgeSoftness 0.035, edgeBoost 0.85
Intensity(il, x, yy) ==
    LET ndotl == NdotL(il, x, yy)
        lit0 == Clamp(Trunc((ndotl + 35) * Milli, 70), 0, Milli)
        lit == PowInterp(lit0, Pow085)
        rim == Milli - Normal(x, yy).nz
        rimFactor == Milli - (100 * rim) \div Milli
        I0 == 20 + ((Milli - 20) * lit) \div Milli
    IN  PowInterp(Clamp((I0 * rimFactor) \div Milli, 0, Milli), Pow095)

\* Scene3D.tsx lines 474-476: a colour channel; the Uint8ClampedArray rounds it
Channel(from, to, I) == Clamp((from * Milli + (to - from) * I + Milli \div 2) \div Milli, 0, 255)

\* Scene3D.tsx lines 436-477: the four bytes written for pixel (x, yy).  The image
\* data starts out all zero, and outside the disk only the alpha byte is written.
ShadePixel(il, dk, x, yy) ==
    IF OutsideDisk(x, yy) THEN [r |-> 0, g |-> 0, b |-> 0, a |-> 0]
    ELSE LET I == Intensity(il, x, yy)
         IN  [r |-> Channel(darkRGB(dk).r, litRGB.r, I),
              g |-> Channel(darkRGB(dk).g, litRGB.g, I),
              b |-> Channel(darkRGB(dk).b, litRGB.b, I),
              a |-> 255]

\* The phases (24ths) and illuminated fractions (tenths) the ephemeris reports
Phases == {0, 3, 6, 12, 18, 21}
Fractions == {0, 10}

InitMoonIdle ==
    /\ mpc = "idle"
    /\ moonIll = [fraction |-> 0, phase |-> 0]
    /\ dark = FALSE
    /\ my = 0
    /\ row = <<>>

\* Scene3D.tsx lines 352-430: a date is set, the canvas and its context exist,
\* ill is computed and the image data is created
InitMoonStart ==
    /\ mpc = "shade"
    /\ moonIll \in {[fraction |-> f, phase |-> ph] : f \in Fractions, ph \in Phases}
    /\ dark \in BOOLEAN
    /\ my = 0
    /\ row = <<>>

moonOthersUnchanged ==
    UNCHANGED <<searchVars, buildVars, samplerVars, appVars, projVars, sceneVars>>

\* One turn of the outer loop (lines 431-479): the inner loop writes row y
ShadeRow ==
    /\ mpc = "shade"
    /\ my < CanvasSize
    /\ row' = [c \in 1..CanvasSize |-> ShadePixel(moonIll, dark, c - 1, my)]
    /\ my' = my + 1
    /\ UNCHANGED <<mpc, moonIll, dark>>
    /\ moonOthersUnchanged

\* After the loop (line 485): putImageData(img, 0, 0)
PutImage ==
    /\ mpc = "shade"
    /\ my = CanvasSize
    /\ mpc' = "done"
    /\ UNCHANGED <<moonIll, dark, my, row>>
    /\ moonOthersUnchanged

NextMoon ==
    \/ ShadeRow
    \/ PutImage

----------------------------------------------------------------------------
(* Scene effect: the useEffect of Scene3D in Scene3D.tsx, and React running it *)

\* The props the effect depends on (line 620), as far as the elements show them:
\* dark, and whether a date is set
ScenePropsSet == [dark : BOOLEAN, dateISO : {0, NoDate}]

\* The elements the effect appends to the mount element, in the order of the
\* lines 68, 172, 189 and 200
ElementTags == <<"canvas", "tip", "badge", "times">>

\* An element created by run id of the effect under the props p
Element(tag, id, p) == [tag |-> tag, owner |-> id, dark |-> p.dark]

\* Node.removeChild / parentElement.removeChild: the element leaves the list
RECURSIVE removeChild(_, _)
removeChild(nodes, el) ==
    IF nodes = <<>> THEN <<>>
    ELSE IF Head(nodes) = el THEN Tail(nodes)
    ELSE <<Head(nodes)>> \o removeChild(Tail(nodes), el)

\* The element with a tag that a run of the effect created, if it is a child
ChildrenOf(nodes, tag, id) ==
    {nodes[n] : n \in {k \in 1..Len(nodes) : nodes[k].tag = tag /\ nodes[k].owner = id}}

\* Mutant of cancelAnimationFrame: the request stays pending
cancelAnimationFrame_Ignored(pending, id) == pending

\* window.cancelAnimationFrame(id)
cancelAnimationFrame(pending, id) == {f \in pending : f.id # id}

\* What the effect and its cleanup read and write
World ==
    [children |-> children, listeners |-> listeners, frames |-> frames, raf |-> raf,
     frameIds |-> frameIds, effectIds |-> effectIds, active |-> active]

\* Scene3D.tsx lines 601-606: tick of run id, up to requestAnimationFrame(tick)
tick(w, id) ==
    LET fid == w.frameIds + 1
    IN  [w EXCEPT !.frameIds = fid,
                  !.frames = @ \cup {[id |-> fid, owner |-> id]},
                  !.raf = [@ EXCEPT ![id] = fid]]

\* Scene3D.tsx lines 51-608: the body of the effect under the props p
SceneSetup(w, p) ==
    LET id == w.effectIds + 1
        appended ==
            [w EXCEPT !.effectIds = id,
                      !.children = @ \o [n \in 1..Len(ElementTags) |->
                                            Element(ElementTags[n], id, p)],
                      !.listeners = @ \cup {[target |-> "canvas", type |-> "mousemove",
                                             owner |-> id],
                                            [target |-> "window", type |-> "resize",
                                             owner |-> id]},
                      !.raf = Append(@, 0),
                      !.active = id]
    IN  tick(appended, id)

\* Removes one element if it is a child (lines 613-615 test parentElement)
RemoveOwned(nodes, tag, id) ==
    IF ChildrenOf(nodes, tag, id) = {} THEN nodes
    ELSE removeChild(nodes, CHOOSE el \in ChildrenOf(nodes, tag, id) : TRUE)

\* Scene3D.tsx lines 609-619: the cleanup the run w.active of the effect returned
SceneCleanup(w) ==
    LET id == w.active
    IN  [w EXCEPT !.frames = cancelAnimationFrame(@, w.raf[id]),
                  !.listeners = {l \in @ : l.owner # id},
                  !.children =
                      RemoveOwned(RemoveOwned(RemoveOwned(RemoveOwned(@,
                          "tip", id), "badge", id), "times", id), "canvas", id),
                  !.active = 0]

SetWorld(w) ==
    /\ children' = w.children
    /\ listeners' = w.listeners
    /\ frames' = w.frames
    /\ raf' = w.raf
    /\ frameIds' = w.frameIds
    /\ effectIds' = w.effectIds
    /\ active' = w.active

NoWorld ==
    /\ children = <<>>
    /\ listeners = {}
    /\ frames = {}
    /\ raf = <<>>
    /\ frameIds = 0
    /\ effectIds = 0
    /\ active = 0

InitSceneIdle ==
    /\ epc = "idle"
    /\ strict = FALSE
    /\ sceneProps = [dark |-> TRUE, dateISO |-> 0]
    /\ NoWorld

\* Scene3D.tsx lines 660-661 and main.tsx line 13: the first props, and the tree
\* rendered under StrictMode (a development build) or without its double effects
InitSceneStart ==
    /\ epc = "start"
    /\ strict \in BOOLEAN
    /\ sceneProps = [dark |-> TRUE, dateISO |-> 0]
    /\ NoWorld

sceneOthersUnchanged ==
    UNCHANGED <<searchVars, buildVars, samplerVars, appVars, projVars, moonVars>>

\* React mounts Scene3D on a new mount element and runs the effect; under
\* StrictMode it then runs the cleanup and the effect once more, in the same task
SceneMount ==
    /\ epc \in {"start", "unmounted"}
    /\ effectIds + 2 <= MaxEffectRuns
    /\ LET fresh == [World EXCEPT !.children = <<>>]
       IN  SetWorld(IF strict THEN SceneSetup(SceneCleanup(SceneSetup(fresh, sceneProps)), sceneProps)
                    ELSE SceneSetup(fresh, sceneProps))
    /\ epc' = "mounted"
    /\ UNCHANGED <<strict, sceneProps>>
    /\ sceneOthersUnchanged

\* React commits new props of which one in the dependency list (line 620) differs:
\* the cleanup of the last run, then the effect under the new props
SceneUpdate(p) ==
    /\ epc = "mounted"
    /\ p # sceneProps
    /\ effectIds + 1 <= MaxEffectRuns
    /\ sceneProps' = p
    /\ SetWorld(SceneSetup(SceneCleanup(World), p))
    /\ UNCHANGED <<epc, strict>>
    /\ sceneOthersUnchanged

\* React unmounts Scene3D: the cleanup of the last run
SceneUnmount ==
    /\ epc = "mounted"
    /\ SetWorld(SceneCleanup(World))
    /\ epc' = "unmounted"
    /\ UNCHANGED <<strict, sceneProps>>
    /\ sceneOthersUnchanged

\* The browser runs the callback of a pending animation frame request: tick
AnimationFrame(f) ==
    /\ f \in frames
    /\ frameIds < MaxFrames
    /\ SetWorld(tick([World EXCEPT !.frames = @ \ {f}], f.owner))
    /\ UNCHANGED <<epc, strict, sceneProps>>
    /\ sceneOthersUnchanged

NextScene ==
    \/ SceneMount
    \/ \E p \in ScenePropsSet : SceneUpdate(p)
    \/ SceneUnmount
    \/ \E f \in frames : AnimationFrame(f)

----------------------------------------------------------------------------
(* Specifications *)

NextSearch ==
    \/ Mount
    \/ StrictRemount
    \/ \E v \in Queries : SetQ(v)
    \/ \E e \in effects : \E o \in Outcomes(e) : Respond(e, o)
    \/ Unmount

NextSampler ==
    \/ SunStep
    \/ MoonStep
    \/ SamplerReturn

InitSearch ==
    InitSearchIdle /\ InitBuildIdle /\ InitSamplerIdle /\ InitAppIdle /\ InitProjIdle /\ InitMoonIdle
        /\ InitSceneIdle
InitBuild ==
    InitSearchIdle /\ InitBuildStart /\ InitSamplerIdle /\ InitAppIdle /\ InitProjIdle /\ InitMoonIdle
        /\ InitSceneIdle
InitSampler ==
    InitSearchIdle /\ InitBuildIdle /\ InitSamplerStart /\ InitAppIdle /\ InitProjIdle /\ InitMoonIdle
        /\ InitSceneIdle
InitApp ==
    InitSearchIdle /\ InitBuildIdle /\ InitSamplerIdle /\ InitAppStart /\ InitProjIdle /\ InitMoonIdle
        /\ InitSceneIdle
InitProj ==
    InitSearchIdle /\ InitBuildIdle /\ InitSamplerIdle /\ InitAppIdle /\ InitProjStart /\ InitMoonIdle
        /\ InitSceneIdle
InitMoon ==
    InitSearchIdle /\ InitBuildIdle /\ InitSamplerIdle /\ InitAppIdle /\ InitProjIdle /\ InitMoonStart
        /\ InitSceneIdle
InitScene ==
    InitSearchIdle /\ InitBuildIdle /\ InitSamplerIdle /\ InitAppIdle /\ InitProjIdle /\ InitMoonIdle
        /\ InitSceneStart

SpecSearch == InitSearch /\ [][NextSearch]_vars
SpecBuild == InitBuild /\ [][NextBuild]_vars
SpecSampler == InitSampler /\ [][NextSampler]_vars
SpecApp == InitApp /\ [][NextApp]_vars
SpecProj == InitProj /\ [][NextProj]_vars
SpecMoon == InitMoon /\ [][NextMoon]_vars
SpecScene == InitScene /\ [][NextScene]_vars

\* The sampling loop is synchronous code: once started it keeps running
SpecSamplerFair == SpecSampler /\ WF_vars(NextSampler)

Init ==
    InitSearch \/ InitBuild \/ InitSampler \/ InitApp \/ InitProj \/ InitMoon \/ InitScene
Next ==
    NextSearch \/ NextBuild \/ NextSampler \/ NextApp \/ NextProj \/ NextMoon \/ NextScene
Spec == Init /\ [][Next]_vars

----------------------------------------------------------------------------
(* Properties: city search *)

\* C1: a response is applied to the result list only if it answers the most
\* recently issued query of a slot that is still mounted; a response to a
\* superseded query, or one arriving after the unmount, is never applied.
C1_OnlyNewestResponseApplied ==
    applied.id # 0 => (applied.id = applied.newest /\ applied.mounted)

\* C1 witness: an older response was dropped, and the response to the third or
\* a later query was applied while it was the newest and shows its results.
C1_Witness ==
    /\ applied.dropped = 1
    /\ applied.id >= 3
    /\ applied.id = issued
    /\ list # <<>>

----------------------------------------------------------------------------
(* Properties: geometry builders *)

Built == bpc = "done"
LinesBuilt == bpc \in {"points", "done"}

\* The number of points held by a flat coordinate array
NumPoints(arr) == Len(arr) \div 3

\* The n-th point (n from 1) of a flat coordinate array
PointAt(arr, n) == [x |-> arr[3 * n - 2], y |-> arr[3 * n - 1], z |-> arr[3 * n]]

\* The sample with source index n
SampleAt(n) == traj[n + 1]

\* C2: at every point of buildPoints, indexMap is strictly increasing, and
\* emitted point d is the projection of trajectory[indexMap[d]] and carries the
\* size computed from that sample.
C2_IndexMapIncreasingAndExact ==
    /\ Len(verts) = 3 * Len(indexMap)
    /\ Len(sizes) = Len(indexMap)
    /\ \A d \in 1..Len(indexMap) :
          /\ indexMap[d] \in 0..(Len(traj) - 1)
          /\ d > 1 => indexMap[d - 1] < indexMap[d]
          /\ PointAt(verts, d) = toXYZ(SampleAt(indexMap[d]), R)
          /\ sizes[d] = PointSize(size, IllumOrDefault(SampleAt(indexMap[d])))

\* C2 witness: a finished point set from which a sample before the last emitted
\* one was filtered out, so display positions and original indices differ.
C2_Witness ==
    /\ Built
    /\ Len(indexMap) >= 2
    /\ indexMap[Len(indexMap)] > Len(indexMap) - 1
    /\ indexMap[1] = 0

\* The source indices of the samples the point set keeps, as the claim states it
KeptIndices ==
    {n \in 0..(Len(traj) - 1) : show \/ SampleAt(n).alt >= 0}

SeqRange(sq) == {sq[n] : n \in 1..Len(sq)}

\* C3: points, sizes and indexMap always have the same length; the finished
\* point set has one entry for each kept sample (all samples when
\* includeBelowHorizon, otherwise those with altitude >= 0) and none for a
\* skipped one; 10 samples with negative altitude at indices 2, 5, 7 and
\* includeBelowHorizon = false give 7 points and indexMap = [0,1,3,4,6,8,9].
C3_OneEntryPerKeptSample ==
    /\ NumPoints(verts) = Len(indexMap) /\ Len(verts) % 3 = 0
    /\ Len(sizes) = Len(indexMap)
    /\ Built =>
          /\ SeqRange(indexMap) = KeptIndices
          /\ Len(indexMap) = Cardinality(KeptIndices)
    /\ (Built /\ traj = SunTrajOf(ExampleAlts10) /\ ~show) =>
          /\ NumPoints(verts) = 7
          /\ indexMap = <<0, 1, 3, 4, 6, 8, 9>>

\* C3 witness: the example of 10 samples has been built with the filter on.
C3_Witness ==
    /\ Built
    /\ traj = SunTrajOf(ExampleAlts10)
    /\ ~show
    /\ Len(indexMap) = 7

\* Sample n (from 1) is visible, as the claims state it
VisibleAt(n) == show \/ traj[n].alt >= 0

\* Some two consecutive samples are visible: a visible run of length >= 2 exists
HasRunOfTwo == \E n \in 1..(Len(traj) - 1) : VisibleAt(n) /\ VisibleAt(n + 1)

\* C4: every emitted polyline has at least 2 points; a trajectory without a
\* visible run of length >= 2 yields no polyline; altitudes [+5, -3, +2, +1]
\* with includeBelowHorizon = false yield exactly one polyline of 2 points.
C4_PolylinesHaveTwoPoints ==
    /\ \A k \in 1..Len(lines) : Len(lines[k]) % 3 = 0 /\ NumPoints(lines[k]) >= 2
    /\ (LinesBuilt /\ ~HasRunOfTwo) => lines = <<>>
    /\ (LinesBuilt /\ traj = SunTrajOf(ExampleAlts4) /\ ~show) =>
          /\ Len(lines) = 1
          /\ NumPoints(lines[1]) = 2

\* C4 witness: the example of 4 samples has been built with the filter on; its
\* first visible run, a single sample, left no polyline.
C4_Witness ==
    /\ Built
    /\ traj = SunTrajOf(ExampleAlts4)
    /\ ~show
    /\ Len(lines) = 1

\* The maximal runs of consecutive visible samples, as pairs <<first, last>>
RunStarts == {a \in 1..Len(traj) : VisibleAt(a) /\ (a = 1 \/ ~VisibleAt(a - 1))}
RunEnd(a) ==
    CHOOSE b \in a..Len(traj) :
        /\ \A c \in a..b : VisibleAt(c)
        /\ (b = Len(traj) \/ ~VisibleAt(b + 1))
LongRunStarts == {a \in RunStarts : RunEnd(a) > a}

\* The k-th smallest element (k from 1) of a finite set of integers
KthSmallest(S, k) == CHOOSE x \in S : Cardinality({y \in S : y < x}) = k - 1

\* The coordinates of samples a..b, in input order
RunCoordinates(a, b) ==
    [m \in 1..(3 * (b - a + 1)) |->
        LET v == toXYZ(traj[a + (m - 1) \div 3], R)
        IN  CASE (m - 1) % 3 = 0 -> v.x
              [] (m - 1) % 3 = 1 -> v.y
              [] OTHER -> v.z]

ExpectedLines ==
    [k \in 1..Cardinality(LongRunStarts) |->
        LET a == KthSmallest(LongRunStarts, k) IN RunCoordinates(a, RunEnd(a))]

\* C5: the emitted polylines are exactly the maximal runs of length >= 2 of
\* consecutive visible samples, in input order, each with its samples in input
\* order; with includeBelowHorizon = true a trajectory of >= 2 samples yields
\* one polyline holding every sample.
C5_PolylinesAreMaximalRuns ==
    LinesBuilt =>
        /\ lines = ExpectedLines
        /\ (show /\ Len(traj) >= 2) =>
              /\ Len(lines) = 1
              /\ lines[1] = RunCoordinates(1, Len(traj))

\* C5 witness: a finished build with the filter on that emitted two or more
\* polylines, different from each other, and dropped a run of one sample.
C5_Witness ==
    /\ Built
    /\ ~show
    /\ Len(lines) >= 2
    /\ lines[1] # lines[2]
    /\ Cardinality(RunStarts) > Len(lines)

\* C6: a sample with altitude exactly 0 is treated as visible under either
\* policy: the curve builder appends it to the current run without closing the
\* run, and the point-set builder emits it with its index.
C6_ZeroAltitudeIsVisible ==
    [][/\ (bpc = "lines" /\ li < Len(traj) /\ SampleAt(li).alt = 0) =>
              /\ current' = current \o RunCoordinates(li + 1, li + 1)
              /\ lines' = lines
       /\ (bpc = "points" /\ i < Len(traj) /\ SampleAt(i).alt = 0) =>
              /\ indexMap' = Append(indexMap, i)
              /\ NumPoints(verts') = NumPoints(verts) + 1
              /\ Len(sizes') = Len(sizes) + 1]_vars

\* C6 witness: with the filter on, a sample on the horizon lies inside a
\* polyline, between two samples above the horizon, and is in the point set.
C6_Witness ==
    /\ Built
    /\ ~show
    /\ \E n \in 2..(Len(traj) - 1) :
          /\ traj[n].alt = 0 /\ traj[n - 1].alt > 0 /\ traj[n + 1].alt > 0
          /\ (n - 1) \in SeqRange(indexMap)
    /\ Len(traj) = 3
    /\ Len(lines) = 1
    /\ NumPoints(lines[1]) = 3

\* Sizes are held in millionths: the product of a base size in thousandths and a
\* factor in thousandths
SizeTimes(sz, thousandths) == sz * thousandths

\* C7: the display size of a sun sample (illumination absent) equals
\* 1.0 * baseSize.
C7_SunSizeIsBaseSize ==
    \A d \in 1..Len(sizes) :
        SampleAt(indexMap[d]).illum = NoIllum => sizes[d] = SizeTimes(size, 1000)

\* C8: the display size of a moon sample is baseSize * (0.6 + 0.8 * illumination):
\* 0.6 * baseSize at illumination 0, 1.4 * baseSize at illumination 1, and
\* between the two for every illumination in [0, 1].
C8_MoonSizeScalesWithIllumination ==
    \A d \in 1..Len(sizes) :
        LET k == SampleAt(indexMap[d]).illum
        IN  k # NoIllum =>
              /\ IllumScale * sizes[d] = size * (600 * IllumScale + 800 * k)
              /\ k = 0 => sizes[d] = SizeTimes(size, 600)
              /\ k = IllumScale => sizes[d] = SizeTimes(size, 1400)
              /\ SizeTimes(size, 600) <= sizes[d] /\ sizes[d] <= SizeTimes(size, 1400)
              /\ (0 < k /\ k < IllumScale) =>
                    SizeTimes(size, 600) < sizes[d] /\ sizes[d] < SizeTimes(size, 1400)

\* C8 witness: a finished moon point set with a new-moon, a half-lit and a
\* full-moon sample, of three different sizes.
C8_Witness ==
    /\ Built
    /\ kind = "moon"
    /\ Len(sizes) = 3
    /\ {SampleAt(indexMap[d]).illum : d \in 1..3} = {0, 5, IllumScale}
    /\ Cardinality(SeqRange(sizes)) = 3

----------------------------------------------------------------------------
(* Properties: trajectory samplers *)

Sampled == spc = "done"
Sampling == spc \in {"loop", "done"}

\* The number of k >= 0 with start + k * stepMin < end
GridPointsInDay == (end - start + stepMin - 1) \div stepMin

\* C9: the sun and the moon sampler emit exactly the instants
\* start + k * stepMinutes, k >= 0, that lie before end = start + 1 day: they
\* increase strictly at a uniform interval, the first is at local midnight, and
\* stepMinutes = 10 over a 24-hour day gives 144 samples.
C9_SamplesAreTheGridOfTheDay ==
    Sampling =>
        /\ \A n \in 1..Len(pts) : pts[n].t = start + (n - 1) * stepMin /\ pts[n].t < end
        /\ \A n \in 2..Len(pts) : pts[n].t - pts[n - 1].t = stepMin /\ pts[n].t > pts[n - 1].t
        /\ Len(pts) >= 1 => pts[1].t = start
        /\ Sampled =>
              /\ Len(pts) = GridPointsInDay
              /\ \A k \in 0..(end - start) :
                    start + k * stepMin < end => \E n \in 1..Len(pts) : pts[n].t = start + k * stepMin
              /\ (stepMin = 10 /\ end - start = 24 * 60) => Len(pts) = 144

\* C9 witness: a sampler has finished a 24-hour day at the 10-minute interval
\* with 144 samples, the first at local midnight of a zone east of Greenwich.
C9_Witness ==
    /\ Sampled
    /\ stepMin = 10
    /\ end - start = 24 * 60
    /\ start < 0
    /\ Len(pts) = 144
    /\ pts[1].t = start

\* C10: for a positive stepMinutes, whether or not it divides the day, the
\* sampling loop terminates; no sample lies at or after end, and none is added
\* to pad the day: the last sample is the last instant of the grid before end,
\* less than or exactly one interval before it.
C10_LoopTerminatesWithoutPadding ==
    /\ <>Sampled
    /\ [](Sampling =>
            /\ \A n \in 1..Len(pts) : pts[n].t < end
            /\ Sampled =>
                  /\ Len(pts) >= 1
                  /\ pts[Len(pts)].t = start + ((end - start - 1) \div stepMin) * stepMin
                  /\ end - pts[Len(pts)].t <= stepMin)

\* C10 witness: a sampler has finished with an interval that does not divide the
\* day, and its last sample is less than one interval before end.
C10_Witness ==
    /\ Sampled
    /\ (end - start) % stepMin # 0
    /\ Len(pts) >= 2
    /\ end - pts[Len(pts)].t < stepMin

----------------------------------------------------------------------------
(* Properties: application root *)

\* The zone lookup of the library fails for this place
ZoneFails(hit) == tzLookup(hit.latitude, hit.longitude).threw

\* The parameters App passes to the samplers for a place
ParamsOf(hit) ==
    [lat |-> hit.latitude, lon |-> hit.longitude, dateISO |-> dateISO, stepMin |-> uiStepMin]

\* C11: when the zone of a place cannot be resolved, both samplers fail for it
\* without a single sample and without a zone put in its place, and the scene
\* is handed no trajectory of that place.
C11_NoTrajectoryWithoutZone ==
    \A n \in 1..Len(slots) :
        (slots[n] # NoHit /\ ZoneFails(slots[n])) =>
            /\ buildTrajectory("sun", ParamsOf(slots[n])) = Thrown
            /\ buildTrajectory("moon", ParamsOf(slots[n])) = Thrown
            /\ Thrown.value = <<>>
            /\ apc = "crashed"
            /\ \A k \in 1..Len(data) : data[k].city.id # toCity(slots[n], n - 1).id

\* C11 witness: a place without a zone was chosen for the third slot while the
\* first slot holds a place whose zone resolves; the render failed.
C11_Witness ==
    /\ apc = "crashed"
    /\ slots[1] # NoHit /\ ~ZoneFails(slots[1])
    /\ slots[3] # NoHit /\ ZoneFails(slots[3])

----------------------------------------------------------------------------
(* Properties: geometry builders, the empty trajectory *)

\* C12: a trajectory without samples is built without a fault: every step of the
\* builders is defined for it, the curve builder returns no polyline and the
\* point builder returns no point, no size and an empty indexMap.
C12_EmptyTrajectoryBuildsNothing ==
    traj = <<>> =>
        /\ bpc # "idle" /\ ~Built => ENABLED NextBuild
        /\ LinesBuilt => lines = <<>>
        /\ Built => (verts = <<>> /\ sizes = <<>> /\ indexMap = <<>>)

\* C12 witness: both builders have returned for a moon trajectory without samples
C12_Witness ==
    /\ Built
    /\ traj = <<>>
    /\ kind = "moon"
    /\ lines = <<>> /\ indexMap = <<>>

----------------------------------------------------------------------------
(* Properties: city search, failures and blank queries *)

\* C13: a failure of the geocoding request (the request fails, the status is not
\* OK, the body cannot be parsed) counts as no results: once the request of
\* the slot's current query has failed, the result list is empty and does not
\* keep the results of an earlier query.
C13_NetworkFailureEmptiesList ==
    applied.failed => list = <<>>

\* The text holds nothing but white space
Blank(query) == \A k \in 1..Len(query) : query[k] = " "

\* The call of effect instance e has ended in this step
Settles(e) == e \in effects /\ \A f \in effects' : f.id # e.id

\* C20: for an empty or white-space-only query searchCity issues no request and
\* returns the empty list: the effect of such a query never holds a request, and
\* when its call ends while it is alive the result list is empty.
C20_BlankQueryNoRequest ==
    [][\A e \in effects :
           Blank(e.q) => /\ ~e.fetch
                         /\ (Settles(e) /\ e.alive) => list' = <<>>]_vars

\* C20 witness: after two earlier queries the box holds white space only; the
\* call for it has returned, not as a failed request, and the list is empty
C20_Witness ==
    /\ q = <<" ">>
    /\ issued >= 3
    /\ applied.id = issued
    /\ ~applied.failed
    /\ list = <<>>

----------------------------------------------------------------------------
(* Properties: trajectory samplers, the azimuth convention *)

\* The azimuth (from south, west positive) the ephemeris reports for a sample
EphemerisAzimuth(b, t) ==
    IF b = "sun" THEN SunCalcPosition(t).azimuth ELSE SunCalcMoonPosition(t).azimuth

\* South-referenced azimuths of two turns around zero, in degrees
SouthAzimuths == -360..360

\* a is the azimuth from north of the south-referenced azimuth s: s plus a
\* half turn, reduced to one turn from 0 (inclusive) to 360 (exclusive)
NorthOf(a, s) == a \in 0..359 /\ (a - (s + 180)) % 360 = 0

\* C14: toAzFromNorth maps every south-referenced azimuth, negative ones
\* included, to that azimuth plus a half turn reduced into [0, 2 pi); so every
\* sample pushed by the samplers carries such an azimuth.
C14_AzimuthFromNorthInOneTurn ==
    /\ \A s \in SouthAzimuths : NorthOf(toAzFromNorth(s), s)
    /\ \A n \in 1..Len(pts) : NorthOf(pts[n].azN, EphemerisAzimuth(body, pts[n].t))

\* C14 witness: a finished moon trajectory holds a sample whose ephemeris azimuth
\* is negative (east of south) and one whose azimuth is positive
C14_Witness ==
    /\ Sampled
    /\ body = "moon"
    /\ \E n \in 1..Len(pts) : EphemerisAzimuth(body, pts[n].t) < 0 /\ pts[n].azN < 180
    /\ \E n \in 1..Len(pts) : EphemerisAzimuth(body, pts[n].t) > 0 /\ pts[n].azN >= 180

----------------------------------------------------------------------------
(* Properties: sky projection *)

\* C15: a sample at the zenith (altitude pi / 2) is projected to (0, R, 0),
\* whatever its azimuth and whatever the radius R.
C15_ZenithProjectsToPole ==
    (ppc = "done" /\ pin.alt = 90) => pout = [x |-> 0, y |-> pR, z |-> 0]

\* C15 witness: a zenith sample with an azimuth off the axes was projected with a
\* radius other than the one the scene uses
C15_Witness ==
    /\ ppc = "done"
    /\ pin.alt = 90
    /\ pin.azN = 45
    /\ pR # R
    /\ pout.y = pR

----------------------------------------------------------------------------
(* Properties: moon phase icon *)

\* The outer loop has written a row; RowY is its y
RowWritten == mpc = "shade" /\ my > 0
RowY == my - 1

\* The centre (x + 1/2, yy + 1/2) of a pixel lies within 0.45 * CanvasSize of the
\* centre of the canvas; compared in twentieths of a pixel
CentreInsideDisk(x, yy) ==
    LET dx == 20 * x + 10 - 10 * CanvasSize
        dy == 20 * yy + 10 - 10 * CanvasSize
    IN  dx * dx + dy * dy <= (9 * CanvasSize) * (9 * CanvasSize)

RowOf(il, dk, yy) == [c \in 1..CanvasSize |-> ShadePixel(il, dk, c - 1, yy)]

\* Illuminated fractions a second render may be given (tenths)
AnyFractions == {0, 5, IllumScale}

\* C17: the raster is a function of the phase fraction and the dark flag only:
\* a render with the same phase and dark flag and any other illuminated
\* fraction produces the same pixels.
C17_RasterIgnoresFraction ==
    RowWritten =>
        \A f \in AnyFractions :
            row = RowOf([fraction |-> f, phase |-> moonIll.phase], dark, RowY)

\* C17 witness: a row through the middle of the disk is written at full moon for
\* an illumination record whose fraction says nothing is lit; the row is lit
C17_Witness ==
    /\ RowWritten
    /\ my = CanvasSize \div 2
    /\ moonIll = [fraction |-> 0, phase |-> PhaseScale \div 2]
    /\ dark
    /\ row[CanvasSize \div 2].r > 200

Abs(v) == IF v < 0 THEN -v ELSE v

\* The distance between two colours, summed over the channels
ColourDist(c1, c2) == Abs(c1.r - c2.r) + Abs(c1.g - c2.g) + Abs(c1.b - c2.b)

\* The pixels of the written row that lie in the disk
DiskColumns == {x \in 0..(CanvasSize - 1) : CentreInsideDisk(x, RowY)}

\* A pixel is near one colour: within 15 hundredths of the way to the other,
\* allowing half a unit of rounding in each channel
Near(px, from, to) == 100 * ColourDist(px, from) <= 15 * ColourDist(from, to) + 150

\* C18: at new moon (phase 0) every pixel of the disk is on the unlit side and
\* its colour is near the unlit colour; at full moon (phase 1/2) every pixel of
\* the disk is on the lit side and its colour is near the lit colour; no
\* terminator crosses the disk.
C18_NewAndFullMoonAreUniform ==
    RowWritten =>
        /\ moonIll.phase = 0 =>
               \A x \in DiskColumns : /\ NdotL(moonIll, x, RowY) < 0
                                      /\ Near(row[x + 1], darkRGB(dark), litRGB)
        /\ moonIll.phase = PhaseScale \div 2 =>
               \A x \in DiskColumns : /\ NdotL(moonIll, x, RowY) > 0
                                      /\ Near(row[x + 1], litRGB, darkRGB(dark))

\* C18 witness: at full moon in dark mode the row is written that holds a pixel
\* on the very limb of the disk, next to one outside it
C18_Witness ==
    /\ RowWritten
    /\ moonIll.phase = PhaseScale \div 2
    /\ dark
    /\ my = 41
    /\ row[60].a = 255
    /\ row[61].a = 0

\* A pixel is on the unlit (lit) side: nearer to the unlit (lit) colour
Unlit(px) == ColourDist(px, darkRGB(dark)) < ColourDist(px, litRGB)
Lit(px) == ColourDist(px, litRGB) < ColourDist(px, darkRGB(dark))

\* C19: at the quarters (phase 1/4 and 3/4) the terminator is the vertical centre
\* line of the disk in every row from the top of the limb to its bottom: the
\* pixels of the disk on one side of column CanvasSize / 2 are lit, those on
\* the other side unlit; and the rasters of the two quarters mirror each other:
\* the pixel at column x of one has the colour of the pixel at column
\* CanvasSize - 1 - x of the other.
C19_QuartersMirrorAtCentreLine ==
    (RowWritten /\ moonIll.phase \in {PhaseScale \div 4, (3 * PhaseScale) \div 4}) =>
        /\ \/ \A x \in DiskColumns :
                  IF x < CanvasSize \div 2 THEN Unlit(row[x + 1]) ELSE Lit(row[x + 1])
           \/ \A x \in DiskColumns :
                  IF x < CanvasSize \div 2 THEN Lit(row[x + 1]) ELSE Unlit(row[x + 1])
        /\ \A x \in 0..(CanvasSize - 1) :
               row[x + 1] = ShadePixel([fraction |-> moonIll.fraction,
                                        phase |-> PhaseScale - moonIll.phase],
                                       dark, CanvasSize - 1 - x, RowY)

\* C19 witness: at the first quarter the top row of the disk is written; it holds
\* an unlit pixel left of the centre line and a lit one right of it
C19_Witness ==
    /\ RowWritten
    /\ moonIll.phase = PhaseScale \div 4
    /\ my = 4
    /\ DiskColumns # {}
    /\ Unlit(row[CanvasSize \div 2])
    /\ Lit(row[CanvasSize \div 2 + 1])

----------------------------------------------------------------------------
(* Properties: city search, the number of results *)

\* C21: every list returned by searchCity, and so every result list shown in a
\* city slot, has at most 8 entries, whatever the geocoding service responds.
C21_AtMostEightResults ==
    Len(list) <= 8

----------------------------------------------------------------------------
(* Properties: application root, the data handed to the scene *)

\* The slots (from 1) that hold a city, and the k-th of them in slot order
FilledSlots(ss) == {n \in 1..Len(ss) : ss[n] # NoHit}
KthFilled(ss, k) == KthSmallest(FilledSlots(ss), k)

\* The data computed from nothing but (ss, d, step): for each slot that holds a
\* city, in slot order, the city with the sun and the moon trajectory of the
\* whole day d at interval step
FromScratch(ss, d, step) ==
    [k \in 1..Cardinality(FilledSlots(ss)) |->
        LET n == KthFilled(ss, k)
            params == [lat |-> ss[n].latitude, lon |-> ss[n].longitude,
                       dateISO |-> d, stepMin |-> step]
        IN  [city |-> toCity(ss[n], n - 1),
             sun |-> SamplerTable["sun"][params].value,
             moon |-> SamplerTable["moon"][params].value]]

\* C22: after any sequence of UI operations the data handed to the scene is the
\* from-scratch computation for the current slots, date and interval: one sun
\* and one moon trajectory per filled slot, in slot order; and a step that only
\* switches display options leaves the data unchanged.
C22_DataIsFromScratch ==
    /\ [](apc = "running" => data = FromScratch(slots, dateISO, uiStepMin))
    /\ [][(opts' # opts /\ apc' = "running") => data' = data]_vars

\* C22 witness: after the interval was set to 5 minutes and a display option was
\* switched, the second and third slot hold different cities and the data has
\* their two entries, each with the 288 samples of the day
C22_Witness ==
    /\ apc = "running"
    /\ opts # InitialOptions
    /\ uiStepMin = 5
    /\ slots[1] = NoHit
    /\ slots[2] # NoHit /\ slots[3] # NoHit /\ slots[2] # slots[3]
    /\ Len(data) = 2
    /\ data[1].city.label = slots[2].name
    /\ Len(data[1].sun) = 288 /\ Len(data[2].moon) = 288

----------------------------------------------------------------------------
(* Properties: application root, the three slots and their colours *)

\* The colour of slot n (from 1)
SlotColour(n) == <<"#ff8a3d", "#35d07f", "#7c6cff">>[n]

\* C23: there are always exactly three slots and at most three rendered cities;
\* the city of each filled slot carries the colour of that slot; and a step
\* replaces at most one slot, leaving the others and the slot count unchanged.
C23_ThreeSlotsWithTheirColours ==
    /\ [](apc # "idle" =>
            /\ Len(slots) = 3
            /\ Len(data) <= 3
            /\ apc = "running" =>
                   /\ Len(data) = Cardinality(FilledSlots(slots))
                   /\ \A k \in 1..Len(data) :
                          LET n == KthFilled(slots, k)
                          IN  /\ data[k].city.color = SlotColour(n)
                              /\ data[k].city.lat = slots[n].latitude
                              /\ data[k].city.lon = slots[n].longitude)
    /\ [][/\ Len(slots') = Len(slots)
          /\ Cardinality({n \in 1..Len(slots) : slots'[n] # slots[n]}) <= 1]_vars

\* C23 witness: the first slot is empty, the second and third hold the same
\* city, and the two rendered cities carry the second and the third colour
C23_Witness ==
    /\ apc = "running"
    /\ slots[1] = NoHit
    /\ slots[2] # NoHit
    /\ slots[3] = slots[2]
    /\ Len(data) = 2
    /\ data[1].city.color = "#35d07f"
    /\ data[2].city.color = "#7c6cff"

----------------------------------------------------------------------------
(* The tooltip reports the sample behind the displayed point *)

\* The cloud under the pointer and the sample its displayed point was made from
PickedCloud == Clouds[pick.object]
PickedSample == PickedCloud.traj[PickedCloud.indexMap[pick.index + 1] + 1]

\* The time of day of a sample in the zone of a city, minutes after midnight
LocalMinutes(p, city) == (p.t + 60 * ((city.lon + 7) \div 15)) % DayMinutes

\* C24: whenever the tooltip is shown for a hit at display index d of a point
\* cloud, the kind, city, time, altitude and azimuth it reports are those of
\* trajectory[indexMap[d]] of that cloud's own trajectory and city; and when
\* samples below the horizon are not shown it never reports a negative altitude
C24_TooltipReportsMappedSample ==
    tip.display = "block" =>
        /\ pick \in RayHits
        /\ tip.kind = PickedCloud.kind
        /\ tip.city = PickedCloud.city.label
        /\ tip.t = LocalMinutes(PickedSample, PickedCloud.city)
        /\ tip.altDeg = PickedSample.alt
        /\ tip.azDeg = PickedSample.azN
        /\ (~show => tip.altDeg >= 0)

\* The tooltip is shown for a point of the built cloud whose display index is not
\* the index of its sample, samples below the horizon being left out
C24_Witness ==
    /\ tip.display = "block"
    /\ ~show
    /\ pick.object = 1
    /\ indexMap[pick.index + 1] # pick.index
    /\ tip.altDeg = traj[indexMap[pick.index + 1] + 1].alt
    /\ tip.altDeg # traj[pick.index + 1].alt

----------------------------------------------------------------------------
(* Properties: the compass and the projector *)

\* Where toXYZ puts a sample on the horizon with azimuth deg
HorizonPoint(deg) == toXYZ(TrajPoint(0, deg, NoIllum), pR)

\* Horizontal vectors: inner product, and the third component of the cross product
Dot(ux, uz, vx, vz) == ux * vx + uz * vz
Cross(ux, uz, vx, vz) == ux * vz - uz * vx

\* Two horizontal vectors lie on the same side of the origin
SameSide(ux, uz, vx, vz) == Dot(ux, uz, vx, vz) > 0

\* Two horizontal vectors point the same way, to within a hundredth of a radian
SameDirection(ux, uz, vx, vz) ==
    /\ Dot(ux, uz, vx, vz) > 0
    /\ 100 * Abs(Cross(ux, uz, vx, vz)) <= Dot(ux, uz, vx, vz)

\* The azimuth a compass label names
BearingOf(text) ==
    CASE text = "N" -> 0 [] text = "E" -> 90 [] text = "S" -> 180 [] text = "W" -> 270

\* Every label sits on the side of the origin the projector puts its bearing on
LabelsFollowProjector ==
    \A n \in 1..Len(labels) :
        LET h == HorizonPoint(BearingOf(labels[n].text))
        IN  SameSide(labels[n].x, labels[n].z, h.x, h.z)

\* Both ends of the tick at angle a lie in the direction the projector gives a
TicksFollowProjector ==
    \A k \in 1..Len(ticks) :
        LET h == HorizonPoint(5 * (k - 1))
        IN  /\ SameDirection(ticks[k].x1, ticks[k].z1, h.x, h.z)
            /\ SameDirection(ticks[k].x2, ticks[k].z2, h.x, h.z)

\* The east and west labels, for which the two conventions agree
EastWestFollowProjector ==
    \A n \in 1..Len(labels) :
        labels[n].text \in {"E", "W"} =>
            LET h == HorizonPoint(BearingOf(labels[n].text))
            IN  SameDirection(labels[n].x, labels[n].z, h.x, h.z)

\* C25: the compass uses the axis convention of the projector: each of the labels
\* N, E, S, W sits on the same side of the origin as the point toXYZ gives a
\* horizon sample of azimuth 0, pi / 2, pi, 3 pi / 2, and the tick for angle a lies
\* in the direction of toXYZ at azimuth a.  The code puts N and S on the far side.
C25_CompassFollowsProjector == LabelsFollowProjector /\ TicksFollowProjector

----------------------------------------------------------------------------
(* Properties: the scene effect *)

\* The children of the mount element with a tag
Tagged(tag) == {n \in 1..Len(children) : children[n].tag = tag}

\* The listeners of a type
Listening(type) == {l \in listeners : l.type = type}

\* C26: the effect is a full teardown and rebuild: after any sequence of prop
\* changes, mounts and unmounts, the double mount of StrictMode included, the mount
\* element holds exactly one canvas, one tooltip, one moon-age badge and one times
\* container while mounted and none of them after the unmount; and the mousemove
\* listener, the resize listener and the animation frame loop are each active at
\* most once, and belong to the run of the effect whose elements are shown.
C26_EffectTearsDownAndRebuilds ==
    /\ epc = "mounted" =>
           /\ Len(children) = Len(ElementTags)
           /\ \A n \in 1..Len(ElementTags) :
                  /\ Tagged(ElementTags[n]) = {n}
                  /\ children[n] = Element(ElementTags[n], active, sceneProps)
    /\ epc = "unmounted" => (children = <<>> /\ listeners = {} /\ frames = {})
    /\ Cardinality(Listening("mousemove")) <= 1
    /\ Cardinality(Listening("resize")) <= 1
    /\ Cardinality(frames) <= 1
    /\ \A l \in listeners : l.owner = active
    /\ \A f \in frames : f.owner = active /\ f.id = raf[active]

\* C26 witness: under StrictMode the effect has run five times (the double mount,
\* then changes of props or another mount), frames were drawn in between, and the
\* mount element shows the four elements of the last run, built for the light
\* theme, with both listeners registered and one frame pending
C26_Witness ==
    /\ epc = "mounted"
    /\ strict
    /\ effectIds = MaxEffectRuns
    /\ frameIds > effectIds
    /\ ~sceneProps.dark
    /\ Len(children) = 4
    /\ Cardinality(listeners) = 2
    /\ Cardinality(frames) = 1

====
